---- MODULE Spec2Model ----
(***************************************************************************)
(* Model of docrun: the Task Executor (run_docker_container), the Parallel *)
(* Dispatcher (run_containers_parallel) and their callers, in the command  *)
(* line variant (docker_runner.py) and the GUI variant                     *)
(* (docker_runner_gui.py).                                                 *)
(*                                                                         *)
(* Strings are sequences of one-character strings.  A command is an        *)
(* integer that stands for a distinct non-blank command string; integers   *)
(* compare as the strings do.  In an entry of the GUI form the command c   *)
(* is typed as c letters, and 0 stands for an entry that names no command. *)
(***************************************************************************)
EXTENDS Integers, Sequences, FiniteSets, TLC

\* ---------------------------------------------------------------- bounds
MaxTasks == 2
NumCmds == 2
MaxWorkers == 2
MaxStrLen == 3
MaxEntries == 3

\* ------------------------------------------------------------- constants
DefaultContainers == 5
MainCommands == <<1, 2, 3>>
Blank == 0

\* --------------------------------------------------------------- strings
Chars == {" ", "a", "\n"}

StringsOver(alphabet, n) == UNION {[1..k -> alphabet] : k \in 0..n}

Texts == StringsOver(Chars, MaxStrLen)

\* texts a user can give as the worker count
ArgStrings ==
    {<<>>, <<"a">>, <<"1", "a">>, <<"1", ".", "5">>, <<"-">>, <<"-", "1">>,
     <<"0">>, <<"+", "1">>, <<" ", "2", " ">>}

IsSpace(c) == c \in {" ", "\n", "\t"}

RECURSIVE LStrip(_)
LStrip(s) == IF s /= <<>> /\ IsSpace(Head(s)) THEN LStrip(Tail(s)) ELSE s

RECURSIVE RStrip(_)
RStrip(s) ==
    IF s /= <<>> /\ IsSpace(s[Len(s)]) THEN RStrip(SubSeq(s, 1, Len(s) - 1)) ELSE s

\* str.strip(): drop leading and trailing whitespace
Strip(s) == RStrip(LStrip(s))

\* Optional[str]
None == [some |-> FALSE, val |-> <<>>]
Some(s) == [some |-> TRUE, val |-> s]

\* Python truthiness of an Optional[str]: None and "" are falsy
Truthy(o) == o.some /\ o.val /= <<>>

ErrPrefix == <<"E", "r", "r", "o", "r", ":", " ">>
LaunchMessage == <<"n", "o", " ", "d", "o", "c", "k", "e", "r">>

\* ------------------------------------------------- the external process
\* What subprocess.run(cmd, capture_output=True, text=True, check=True) can do:
\* return with exit status 0, raise CalledProcessError (exit status /= 0),
\* or raise another exception because the launcher could not be started.
ProcResultsOver(texts) ==
    {[kind |-> "exit0", rc |-> 0, stdout |-> t, stderr |-> <<>>] : t \in texts}
    \cup {[kind |-> "nonzero", rc |-> 2, stdout |-> <<>>, stderr |-> t] : t \in texts}
    \cup {[kind |-> "oserror", rc |-> -1, stdout |-> <<>>, stderr |-> <<>>]}

ProcResults == ProcResultsOver(Texts)

\* the process results the dispatcher's tasks draw from: output, blank
\* output, a failing command, no launcher
PoolProcResults ==
    {[kind |-> "exit0", rc |-> 0, stdout |-> <<"a", "\n">>, stderr |-> <<>>],
     [kind |-> "exit0", rc |-> 0, stdout |-> <<"\n">>, stderr |-> <<>>],
     [kind |-> "nonzero", rc |-> 2, stdout |-> <<>>, stderr |-> <<"a", "\n">>],
     [kind |-> "oserror", rc |-> -1, stdout |-> <<>>, stderr |-> <<>>]}

\* ------------------------------------------------------------- executor
\* the name each variant uses for the first component of the tuple it returns
IdName(v) == IF v = "cli" THEN "index" ELSE "command"

\* the names bound where the tuple is built: the parameter, and no global
\* or builtin called index
NameDefined(name) == name = "command"

Returned(t) == [raised |-> FALSE, exc |-> "none", value |-> t]
Raised(e) == [raised |-> TRUE, exc |-> e, value |-> <<0, None, None>>]

\* building the tuple (name, out, err) evaluates name first
MakeOutcome(v, command, out, err) ==
    IF NameDefined(IdName(v)) THEN Returned(<<command, out, err>>)
    ELSE Raised("NameError")

\* a try body that also passes the captured stderr along on success
TryBodyKeepsStderr(v, command, proc) ==
    IF proc.kind = "exit0"
    THEN MakeOutcome(v, command, Some(Strip(proc.stdout)), Some(proc.stderr))
    ELSE IF proc.kind = "nonzero" THEN Raised("CalledProcessError")
    ELSE Raised("OSError")

\* the try body: subprocess.run, then return (id, stdout.strip(), None)
TryBody(v, command, proc) ==
    IF proc.kind = "exit0" THEN MakeOutcome(v, command, Some(Strip(proc.stdout)), None)
    ELSE IF proc.kind = "nonzero" THEN Raised("CalledProcessError")
    ELSE Raised("OSError")

\* run_docker_container: the try body and its two handlers.  An exception
\* raised while a handler runs leaves the function.
run_docker_container(v, command, proc) ==
    LET body == TryBody(v, command, proc) IN
    IF ~body.raised THEN body
    ELSE IF body.exc = "CalledProcessError"
         THEN MakeOutcome(v, command, None, Some(ErrPrefix \o Strip(proc.stderr)))
    ELSE MakeOutcome(v, command, None,
                     Some(ErrPrefix \o (IF body.exc = "OSError" THEN LaunchMessage
                                        ELSE <<"n", "a", "m", "e">>)))

\* --------------------------------------------------------------- parsing
IsDigit(c) == c \in {"0", "1", "2", "3", "4", "5", "6", "7", "8", "9"}
DigitVal(c) == CASE c = "0" -> 0 [] c = "1" -> 1 [] c = "2" -> 2 [] c = "3" -> 3
                 [] c = "4" -> 4 [] c = "5" -> 5 [] c = "6" -> 6 [] c = "7" -> 7
                 [] c = "8" -> 8 [] c = "9" -> 9 [] OTHER -> 0

RECURSIVE DigitsVal(_)
DigitsVal(s) == IF s = <<>> THEN 0
                ELSE 10 * DigitsVal(SubSeq(s, 1, Len(s) - 1)) + DigitVal(s[Len(s)])

AllDigits(s) == s /= <<>> /\ \A i \in 1..Len(s) : IsDigit(s[i])

\* int(text): an optional sign and decimal digits, else ValueError
ParseInt(s) ==
    LET t == Strip(s) IN
    IF t /= <<>> /\ Head(t) \in {"-", "+"}
    THEN IF AllDigits(Tail(t))
         THEN [ok |-> TRUE, val |-> IF Head(t) = "-" THEN 0 - DigitsVal(Tail(t))
                                    ELSE DigitsVal(Tail(t))]
         ELSE [ok |-> FALSE, val |-> 0]
    ELSE IF AllDigits(t) THEN [ok |-> TRUE, val |-> DigitsVal(t)]
    ELSE [ok |-> FALSE, val |-> 0]

\* ----------------------------------------------------------------- state
VARIABLES
    mode,            \* which program runs and how the dispatcher is entered
    pc,              \* position of the thread that runs the dispatcher
    argv,            \* command line: sys.argv[1], when present
    max_workers_var, \* GUI: text of the Max Workers field when Run was clicked
    max_workers,     \* the worker bound handed to ThreadPoolExecutor
    commands,        \* the batch handed to run_containers_parallel
    futures,         \* future_to_index / future_to_command, in submission order
    work_queue,      \* the pool's queue of work items (indices into futures)
    num_threads,     \* worker threads the pool has started
    snapshot,        \* as_completed: futures found finished, not yet yielded
    waiter,          \* as_completed: futures finished since, in completion order
    results,         \* the results list of the running call
    ret,             \* the value the call returned
    exc,             \* the exception that left the call
    exit_status,     \* CLI process exit status
    printed,         \* CLI standard output
    run_button,      \* GUI run button state
    after_queue,     \* GUI callbacks scheduled with root.after
    results_text,    \* GUI results pane
    dialog,          \* GUI message box shown by the last click
    command_entries, \* GUI: the command entries, each a widget and its text
    clicked,         \* GUI: the widget the last handler was asked to delete, 0 if none
    first_call       \* how an earlier call on the same batch ended, if any

vars == <<mode, pc, argv, max_workers_var, max_workers, commands, futures,
          work_queue, num_threads, snapshot, waiter, results, ret,
          exc, exit_status, printed, run_button, after_queue, results_text,
          dialog, command_entries, clicked, first_call>>

poolVars == <<futures, work_queue, num_threads, snapshot, waiter>>
cliVars == <<argv, exit_status, printed>>
guiVars == <<max_workers_var, run_button, after_queue, results_text, dialog>>

Modes == {"cli_main", "cli_direct", "gui_app", "gui_direct"}
Variant(m) == IF m \in {"cli_main", "cli_direct"} THEN "cli" ELSE "gui"

Cmds == 1..NumCmds
Distinct(s) == \A i, j \in 1..Len(s) : s[i] = s[j] => i = j
\* batches of tasks with unique identifiers, in any order
Batches == {b \in UNION {[1..k -> Cmds] : k \in 0..MaxTasks} : Distinct(b)}
\* the commands of the GUI's entries: at least one entry, at most one of them
\* blank, the others distinct
EntryLists ==
    {e \in UNION {[1..k -> Cmds \cup {Blank}] : k \in 1..MaxTasks} :
        /\ Distinct(SelectSeq(e, LAMBDA x : x /= Blank))
        /\ Len(SelectSeq(e, LAMBDA x : x = Blank)) <= 1}
NoArg == [present |-> FALSE, text |-> <<>>]
Argvs == {NoArg} \cup {[present |-> TRUE, text |-> s] : s \in ArgStrings}

NoOutcome == Returned(<<0, None, None>>)
NoCall == [done |-> FALSE, returned |-> FALSE, ret |-> <<>>]

\* the text of command c as it is typed into an entry of the form
CmdText(c) == [i \in 1..c |-> "a"]
\* the command a trimmed entry text stands for
CommandOf(s) == Len(s)
\* what the user leaves in an entry: the command with whitespace around it,
\* and whitespace only when the entry names no command
EntryText(c) ==
    IF c = Blank THEN <<" ", "\n">> ELSE <<" ">> \o CmdText(c) \o <<"\n">>

\* the command add_command puts into the first entry
DefaultCommand == 1
\* a widget that is not in the list
FreshId(entries) ==
    CHOOSE i \in 1..(Len(entries) + 1) :
        /\ \A k \in 1..Len(entries) : entries[k].id /= i
        /\ \A j \in 1..(i - 1) : \E k \in 1..Len(entries) : entries[k].id = j
\* add_command: a new Text widget, holding the default text when it is the
\* first one, appended to command_entries
AddedEntry(entries) ==
    Append(entries, [id |-> FreshId(entries),
                     text |-> IF entries = <<>> THEN CmdText(DefaultCommand)
                              ELSE <<>>])
\* command_entries once create_widgets has run
InitialEntries(m) == IF Variant(m) = "gui" THEN AddedEntry(<<>>) ELSE <<>>

NoProc == [kind |-> "none", rc |-> 0, stdout |-> <<>>, stderr |-> <<>>]

Init ==
    /\ mode \in Modes
    /\ pc = "start"
    /\ argv = NoArg
    /\ max_workers_var = <<"5">>
    /\ max_workers = 0
    /\ commands = <<>>
    /\ futures = <<>>
    /\ work_queue = <<>>
    /\ num_threads = 0
    /\ snapshot = {}
    /\ waiter = <<>>
    /\ results = <<>>
    /\ ret = <<>>
    /\ exc = "none"
    /\ exit_status = -1
    /\ printed = <<>>
    /\ run_button = "normal"
    /\ after_queue = <<>>
    /\ results_text = <<>>
    /\ dialog = "none"
    /\ command_entries = InitialEntries(mode)
    /\ clicked = 0
    /\ first_call = NoCall

FreshPool ==
    /\ futures' = <<>>
    /\ work_queue' = <<>>
    /\ num_threads' = 0
    /\ snapshot' = {}
    /\ waiter' = <<>>

\* ------------------------------------------------------------ reporting
RECURSIVE CountTruthy(_)
CountTruthy(rs) ==
    IF rs = <<>> THEN 0
    ELSE CountTruthy(Tail(rs)) + (IF Truthy(Head(rs)[2]) THEN 1 ELSE 0)

\* aggregate_and_display_results / display_results: one block per Outcome,
\* SUCCESS when stdout is truthy, and the summary line
Report(rs) ==
    [kind |-> "report", n |-> Len(rs),
     successful_runs |-> CountTruthy(rs),
     failed_runs |-> Len(rs) - CountTruthy(rs),
     blocks |-> [i \in 1..Len(rs) |->
                   [id |-> rs[i][1],
                    status |-> IF Truthy(rs[i][2]) THEN "SUCCESS" ELSE "FAILED",
                    text |-> IF Truthy(rs[i][2]) THEN rs[i][2] ELSE rs[i][3]]]]

ErrorLine(e) ==
    [kind |-> "error", n |-> 0, successful_runs |-> 0, failed_runs |-> 0,
     blocks |-> <<[id |-> 0, status |-> e, text |-> None]>>]

\* ----------------------------------------------------------- CLI: main
\* a check that only asks for an integer
ArgAcceptedAnyInt(a) == ParseInt(a.text).ok

\* the check of the worker-count argument: int() succeeds and the value is >= 1
ArgAccepted(a) == ParseInt(a.text).ok /\ ~(ParseInt(a.text).val < 1)

Main(a) ==
    /\ mode = "cli_main"
    /\ pc = "start"
    /\ argv' = a
    /\ IF a.present /\ ~ArgAccepted(a)
       THEN /\ printed' = <<ErrorLine("Invalid argument"), ErrorLine("Usage")>>
            /\ exit_status' = 1
            /\ pc' = "exited"
            /\ UNCHANGED <<max_workers, commands>>
       ELSE /\ max_workers' = IF a.present THEN ParseInt(a.text).val
                              ELSE DefaultContainers
            /\ printed' = <<ErrorLine("Running")>>
            /\ commands' = MainCommands
            /\ pc' = "dispatch"
            /\ UNCHANGED exit_status
    /\ UNCHANGED <<mode, clicked, first_call, command_entries, poolVars, results, ret, exc, guiVars>>

\* ------------------------------------- a direct call of the dispatcher
DirectCall(w, cmds) ==
    /\ mode \in {"cli_direct", "gui_direct"}
    /\ pc = "start"
    /\ max_workers' = w
    /\ commands' = cmds
    /\ pc' = "dispatch"
    /\ UNCHANGED <<mode, clicked, first_call, command_entries, poolVars, results, ret, exc, cliVars, guiVars>>

\* ------------------------------------------------- GUI: run_containers
\* validate_max_workers: the parsed bound, or None (shown as an error box)
validate_max_workers(text) ==
    LET parsed == ParseInt(text) IN
    IF parsed.ok /\ ~(parsed.val < 1)
    THEN [ok |-> TRUE, val |-> parsed.val]
    ELSE [ok |-> FALSE, val |-> 0]

\* a filter that tests the texts as they are typed
NonBlankUntrimmed(texts) == SelectSeq(texts, LAMBDA s : s /= <<>>)

\* the trimmed texts of the entries that are not empty after strip(), in
\* entry order
NonBlank(texts) ==
    SelectSeq([i \in 1..Len(texts) |-> Strip(texts[i])], LAMBDA s : s /= <<>>)

\* the list run_containers builds from the texts
CommandsOf(texts) ==
    LET kept == NonBlank(texts) IN
    [i \in 1..Len(kept) |-> CommandOf(kept[i])]

\* the text each entry's widget holds
EntryTexts(entries) == [i \in 1..Len(entries) |-> entries[i].text]

\* entries whose widgets are numbered in entry order
WithIds(texts) ==
    [i \in 1..Len(texts) |-> [id |-> i, text |-> EntryText(texts[i])]]
EntryForms == {WithIds(e) : e \in EntryLists}

\* texts a user leaves in the Max Workers field: not a number, below 1, and
\* two numbers written with a sign or with blanks
FieldTexts == {<<"a">>, <<"0">>, <<"+", "1">>, <<" ", "2", " ">>}

\* the forms that make a difference to a click: the entries are not read
\* when the worker count is rejected
FormsRead(text) ==
    IF validate_max_workers(text).ok THEN EntryForms ELSE {command_entries}

\* a click on the run button, which Tk delivers only while the button is
\* enabled, with the form holding entries; the entries are read once the
\* worker count has passed validation
RunContainers(text, entries) ==
    LET checked == validate_max_workers(text)
        cmds == CommandsOf(EntryTexts(entries))
    IN
    /\ mode = "gui_app"
    /\ run_button = "normal"
    /\ max_workers_var' = text
    /\ IF ~checked.ok
       THEN /\ dialog' = "Invalid Input"
            /\ UNCHANGED <<pc, max_workers, commands, run_button, results_text,
                           command_entries>>
       ELSE IF cmds = <<>>
       THEN /\ dialog' = "No Commands"
            /\ command_entries' = entries
            /\ UNCHANGED <<pc, max_workers, commands, run_button, results_text>>
       ELSE /\ dialog' = "none"
            /\ command_entries' = entries
            /\ run_button' = "disabled"
            /\ results_text' = <<[kind |-> "running", n |-> Len(cmds),
                                  successful_runs |-> 0, failed_runs |-> 0,
                                  blocks |-> <<>>]>>
            /\ max_workers' = checked.val
            /\ commands' = cmds
            /\ pc' = "dispatch"
    /\ UNCHANGED <<mode, clicked, first_call, poolVars, results, ret, exc, cliVars, after_queue>>

\* ------------------------------------------- run_containers_parallel
\* ThreadPoolExecutor(max_workers=n) raises ValueError unless n > 0
PoolAccepts(n) == n > 0

CreatePool ==
    /\ pc = "dispatch"
    /\ results' = <<>>
    /\ ret' = <<>>
    /\ FreshPool
    /\ IF PoolAccepts(max_workers)
       THEN pc' = "submit" /\ exc' = "none"
       ELSE pc' = "raised" /\ exc' = "ValueError"
    /\ UNCHANGED <<mode, clicked, first_call, command_entries, max_workers, commands, cliVars, guiVars>>

RunningSet == {i \in 1..Len(futures) : futures[i].state = "RUNNING"}
FinishedSet == {i \in 1..Len(futures) : futures[i].state = "FINISHED"}

\* a pool that starts a thread for every submitted task
SpawnsThreadUnbounded(threads, bound) == TRUE

\* executor.submit -> _adjust_thread_count: start a worker thread while fewer
\* than max_workers exist.  (A pool that first looks for an idle worker starts
\* no more threads than this one, so its runs are among the runs modelled.)
SpawnsThread(threads, bound) == threads < bound

\* a comprehension that submits the first command at every turn
SubmittedTaskFirst(cmds, k) == cmds[1]

\* the comprehension "for i in commands": its k-th turn submits the k-th command
SubmittedTask(cmds, k) == cmds[k]

Submit ==
    /\ pc = "submit"
    /\ Len(futures) < Len(commands)
    /\ LET i == Len(futures) + 1 IN
       /\ futures' = Append(futures, [cmd |-> SubmittedTask(commands, i),
                                      state |-> "PENDING", runs |-> 0,
                                      proc |-> NoProc, outcome |-> NoOutcome])
       /\ work_queue' = Append(work_queue, i)
    /\ num_threads' = IF SpawnsThread(num_threads, max_workers)
                       THEN num_threads + 1 ELSE num_threads
    /\ UNCHANGED <<mode, clicked, first_call, command_entries, pc, max_workers, commands, snapshot, waiter, results,
                   ret, exc, cliVars, guiVars>>

\* as_completed(future_to_index): note the futures already finished
AsCompleted ==
    /\ pc = "submit"
    /\ Len(futures) = Len(commands)
    /\ snapshot' = FinishedSet
    /\ waiter' = <<>>
    /\ pc' = "collect"
    /\ UNCHANGED <<mode, clicked, first_call, command_entries, max_workers, commands, futures, work_queue, num_threads,
                   results, ret, exc, cliVars, guiVars>>

\* a worker thread takes the next work item when it is not running one
WorkerFree == Cardinality(RunningSet) < num_threads

WorkerStart ==
    /\ work_queue /= <<>>
    /\ WorkerFree
    /\ futures' = [futures EXCEPT ![Head(work_queue)].state = "RUNNING",
                                  ![Head(work_queue)].runs = @ + 1]
    /\ work_queue' = Tail(work_queue)
    /\ UNCHANGED <<mode, clicked, first_call, command_entries, pc, max_workers, commands, num_threads, snapshot,
                   waiter, results, ret, exc, cliVars, guiVars>>

\* a work item that appends its own result to the shared list
WorkerFinishAppends(i, proc) ==
    /\ i \in RunningSet
    /\ futures' = [futures EXCEPT ![i].state = "FINISHED",
                                  ![i].proc = proc,
                                  ![i].outcome = run_docker_container(
                                        Variant(mode), futures[i].cmd, proc)]
    /\ waiter' = IF pc = "collect" THEN Append(waiter, i) ELSE waiter
    /\ results' = IF futures'[i].outcome.raised THEN results
                  ELSE Append(results, futures'[i].outcome.value)
    /\ UNCHANGED <<mode, clicked, first_call, command_entries, pc, max_workers, commands, work_queue, num_threads,
                   snapshot, ret, exc, cliVars, guiVars>>

\* the external process ends; the work item stores the result or the
\* exception of run_docker_container in its future
WorkerFinish(i, proc) ==
    /\ i \in RunningSet
    /\ futures' = [futures EXCEPT ![i].state = "FINISHED",
                                  ![i].proc = proc,
                                  ![i].outcome = run_docker_container(
                                        Variant(mode), futures[i].cmd, proc)]
    /\ waiter' = IF pc = "collect" THEN Append(waiter, i) ELSE waiter
    /\ UNCHANGED <<mode, clicked, first_call, command_entries, pc, max_workers, commands, work_queue, num_threads,
                   snapshot, results, ret, exc, cliVars, guiVars>>

\* one turn of the collection loop: the next future as_completed yields,
\* future.result(), results.append
Collect ==
    /\ pc = "collect"
    /\ \E f \in (IF snapshot /= {} THEN snapshot
                 ELSE IF waiter /= <<>> THEN {Head(waiter)} ELSE {}) :
         /\ snapshot' = snapshot \ {f}
         /\ waiter' = IF snapshot /= {} THEN waiter ELSE Tail(waiter)
         /\ IF futures[f].outcome.raised
            THEN /\ exc' = futures[f].outcome.exc
                 /\ pc' = "shutdown"
                 /\ UNCHANGED results
            ELSE /\ results' = Append(results, futures[f].outcome.value)
                 /\ UNCHANGED <<pc, exc>>
    /\ UNCHANGED <<mode, clicked, first_call, command_entries, max_workers, commands, futures, work_queue, num_threads,
                   ret, cliVars, guiVars>>

\* the loop ends when every future has been yielded
CollectDone ==
    /\ pc = "collect"
    /\ Len(results) = Len(futures)
    /\ pc' = "shutdown"
    /\ UNCHANGED <<mode, clicked, first_call, command_entries, max_workers, commands, poolVars, results, ret, exc,
                   cliVars, guiVars>>

\* results.sort(key=lambda x: x[0]): stable, ascending by identifier
RECURSIVE InsertByKey(_, _)
InsertByKey(sorted, x) ==
    IF sorted = <<>> THEN <<x>>
    ELSE IF sorted[Len(sorted)][1] <= x[1] THEN Append(sorted, x)
    ELSE Append(InsertByKey(SubSeq(sorted, 1, Len(sorted) - 1), x),
                sorted[Len(sorted)])

RECURSIVE SortByKey(_)
SortByKey(s) ==
    IF s = <<>> THEN <<>>
    ELSE InsertByKey(SortByKey(SubSeq(s, 1, Len(s) - 1)), s[Len(s)])

\* what each variant does with results before it returns them
FinalOrder(v, rs) == IF v = "cli" THEN SortByKey(rs) ELSE rs

\* a shutdown that does not wait: shutdown(wait=False)
WorkersNotAwaited == TRUE

\* leaving the with block: shutdown(wait=True) joins the worker threads,
\* which first run every work item still queued
WorkersJoined == work_queue = <<>> /\ RunningSet = {}

Shutdown ==
    /\ pc = "shutdown"
    /\ WorkersJoined
    /\ IF exc /= "none"
       THEN pc' = "raised" /\ UNCHANGED ret
       ELSE pc' = "returned" /\ ret' = FinalOrder(Variant(mode), results)
    /\ UNCHANGED <<mode, clicked, first_call, command_entries, max_workers, commands, poolVars, results, exc,
                   cliVars, guiVars>>

\* main after the call: when run_containers_parallel returned, print the
\* report and end with exit status 0; an exception that leaves main ends the
\* interpreter with a traceback and exit status 1
MainEnd ==
    /\ mode = "cli_main"
    /\ pc \in {"returned", "raised"}
    /\ printed' = Append(printed, IF pc = "returned" THEN Report(ret)
                                  ELSE ErrorLine("Traceback"))
    /\ exit_status' = IF pc = "returned" THEN 0 ELSE 1
    /\ pc' = "exited"
    /\ UNCHANGED <<mode, clicked, first_call, command_entries, argv, max_workers, commands, poolVars, results, ret, exc,
                   guiVars>>

Callback(fn, rs, e) == [fn |-> fn, results |-> rs, error |-> e]

\* a thread body without the finally clause
RunContainersThreadEndNoFinally ==
    /\ mode = "gui_app"
    /\ pc \in {"returned", "raised"}
    /\ after_queue' = after_queue \o
          <<IF pc = "returned" THEN Callback("display_results", ret, "none")
            ELSE Callback("display_error", <<>>, exc)>>
    /\ pc' = "start"
    /\ max_workers' = 0
    /\ commands' = <<>>
    /\ results' = <<>>
    /\ ret' = <<>>
    /\ exc' = "none"
    /\ FreshPool
    /\ UNCHANGED <<mode, clicked, first_call, command_entries, cliVars, max_workers_var, run_button, results_text, dialog>>

\* run_containers_thread after the call: schedule display_results or
\* display_error, and in the finally clause the re-enabling of the button
RunContainersThreadEnd ==
    /\ mode = "gui_app"
    /\ pc \in {"returned", "raised"}
    /\ after_queue' = after_queue \o
          <<IF pc = "returned" THEN Callback("display_results", ret, "none")
            ELSE Callback("display_error", <<>>, exc),
            Callback("enable_button", <<>>, "none")>>
    /\ pc' = "start"
    /\ max_workers' = 0
    /\ commands' = <<>>
    /\ results' = <<>>
    /\ ret' = <<>>
    /\ exc' = "none"
    /\ FreshPool
    /\ UNCHANGED <<mode, clicked, first_call, command_entries, cliVars, max_workers_var, run_button, results_text, dialog>>

\* the Tk main loop runs the next scheduled callback
AfterCallback ==
    /\ mode = "gui_app"
    /\ after_queue /= <<>>
    /\ LET cb == Head(after_queue) IN
       /\ results_text' =
            IF cb.fn = "display_results" THEN Append(results_text, Report(cb.results))
            ELSE IF cb.fn = "display_error" THEN Append(results_text, ErrorLine(cb.error))
            ELSE results_text
       /\ run_button' = IF cb.fn = "enable_button" THEN "normal" ELSE run_button
    /\ after_queue' = Tail(after_queue)
    /\ UNCHANGED <<mode, clicked, first_call, command_entries, pc, max_workers, commands, poolVars, results, ret, exc,
                   cliVars, max_workers_var, dialog>>

\* -------------------------------------------------------- specification
Next ==
    \/ \E a \in Argvs : Main(a)
    \/ \E w \in (0 - 1)..MaxWorkers, cmds \in Batches : DirectCall(w, cmds)
    \/ \E text \in FieldTexts :
          \E entries \in FormsRead(text) : RunContainers(text, entries)
    \/ CreatePool
    \/ Submit
    \/ AsCompleted
    \/ WorkerStart
    \/ \E i \in 1..Len(futures), proc \in PoolProcResults : WorkerFinish(i, proc)
    \/ Collect
    \/ CollectDone
    \/ Shutdown
    \/ MainEnd
    \/ RunContainersThreadEnd
    \/ AfterCallback

Spec == Init /\ [][Next]_vars

\* the largest number of futures of one call
MaxBatch == IF Len(MainCommands) > MaxTasks THEN Len(MainCommands) ELSE MaxTasks

\* scheduling: the calling thread, each worker thread and the Tk main loop
\* are scheduled fairly, and every external process terminates
FairSpec ==
    /\ Spec
    /\ WF_vars(CreatePool \/ Submit \/ AsCompleted \/ Collect \/ CollectDone
                  \/ Shutdown \/ MainEnd \/ RunContainersThreadEnd)
    /\ WF_vars(WorkerStart)
    /\ \A i \in 1..MaxBatch :
          WF_vars(\E proc \in PoolProcResults : WorkerFinish(i, proc))
    /\ WF_vars(AfterCallback)

TypeOK ==
    /\ mode \in Modes
    /\ pc \in {"start", "dispatch", "submit", "collect", "shutdown", "returned",
               "raised", "exited"}
    /\ run_button \in {"normal", "disabled"}
    /\ num_threads \in 0..Len(futures)
    /\ Len(futures) <= Len(commands)

\* ----------------------------------------------- the GUI application
\* the window after construction, its run button, the thread of a dispatch
\* and the Tk main loop
GuiInit == Init /\ mode = "gui_app"

GuiNext ==
    \/ \E text \in FieldTexts :
          \E entries \in FormsRead(text) : RunContainers(text, entries)
    \/ CreatePool
    \/ Submit
    \/ AsCompleted
    \/ WorkerStart
    \/ \E i \in 1..Len(futures), proc \in PoolProcResults : WorkerFinish(i, proc)
    \/ Collect
    \/ CollectDone
    \/ Shutdown
    \/ RunContainersThreadEnd
    \/ AfterCallback

GuiSpec == GuiInit /\ [][GuiNext]_vars

\* scheduling: the dispatch thread, each worker thread and the Tk main loop
\* are scheduled fairly, and every external process terminates
GuiFairSpec ==
    /\ GuiSpec
    /\ WF_vars(CreatePool \/ Submit \/ AsCompleted \/ Collect \/ CollectDone
                  \/ Shutdown \/ RunContainersThreadEnd)
    /\ WF_vars(WorkerStart)
    /\ \A i \in 1..MaxTasks :
          WF_vars(\E proc \in PoolProcResults : WorkerFinish(i, proc))
    /\ WF_vars(AfterCallback)

\* ------------------------------------------------------ the GUI form
\* the texts a user types into an entry
TypedTexts == {<<>>} \cup {EntryText(c) : c \in Cmds \cup {Blank}}

\* the user replaces the text of the entry's widget
EditText(k, t) ==
    /\ mode = "gui_app"
    /\ k \in 1..Len(command_entries)
    /\ command_entries' = [command_entries EXCEPT ![k].text = t]
    /\ clicked' = 0
    /\ UNCHANGED <<mode, pc, max_workers, commands, poolVars, results, ret, exc,
                   cliVars, guiVars, first_call>>

\* a click on "Add Command"
add_command ==
    /\ mode = "gui_app"
    /\ Len(command_entries) < MaxEntries
    /\ command_entries' = AddedEntry(command_entries)
    /\ clicked' = 0
    /\ dialog' = "none"
    /\ UNCHANGED <<mode, pc, max_workers, commands, poolVars, results, ret, exc,
                   cliVars, max_workers_var, run_button, after_queue,
                   results_text, first_call>>

\* list.remove(x): drop the first element that is x
RemoveWidget(entries, w) ==
    LET k == CHOOSE j \in 1..Len(entries) :
                 /\ entries[j].id = w
                 /\ \A i \in 1..(j - 1) : entries[i].id /= w
    IN SubSeq(entries, 1, k - 1) \o SubSeq(entries, k + 1, Len(entries))

\* a guard that lets every entry go
MayDeleteAny(entries) == Len(entries) > 0

\* the guard of delete_command: keep at least one command
MayDelete(entries) == Len(entries) > 1

\* a click on the Delete button of the entry whose widget is w
delete_command(w) ==
    /\ mode = "gui_app"
    /\ \E k \in 1..Len(command_entries) : command_entries[k].id = w
    /\ clicked' = w
    /\ IF MayDelete(command_entries)
       THEN /\ command_entries' = RemoveWidget(command_entries, w)
            /\ dialog' = "none"
       ELSE /\ dialog' = "Warning"
            /\ UNCHANGED command_entries
    /\ UNCHANGED <<mode, pc, max_workers, commands, poolVars, results, ret, exc,
                   cliVars, max_workers_var, run_button, after_queue,
                   results_text, first_call>>

FormInit == Init /\ mode = "gui_app"

FormNext ==
    \/ add_command
    \/ \E w \in 1..MaxEntries : delete_command(w)
    \/ \E k \in 1..MaxEntries, t \in TypedTexts : EditText(k, t)

FormSpec == FormInit /\ [][FormNext]_vars

\* ------------------------------------------------ two calls, one batch
\* the caller notes how the call ended and calls the dispatcher again with
\* the same batch and the same bound
CallAgain ==
    /\ mode \in {"cli_direct", "gui_direct"}
    /\ pc \in {"returned", "raised"}
    /\ ~first_call.done
    /\ first_call' = [done |-> TRUE, returned |-> pc = "returned", ret |-> ret]
    /\ pc' = "dispatch"
    /\ UNCHANGED <<mode, clicked, command_entries, max_workers, commands, poolVars, results,
                   ret, exc, cliVars, guiVars>>

TwiceInit == Init /\ mode \in {"cli_direct", "gui_direct"}

TwiceNext ==
    \/ \E w \in (0 - 1)..MaxWorkers, cmds \in Batches : DirectCall(w, cmds)
    \/ CreatePool
    \/ Submit
    \/ AsCompleted
    \/ WorkerStart
    \/ \E i \in 1..Len(futures), proc \in PoolProcResults : WorkerFinish(i, proc)
    \/ Collect
    \/ CollectDone
    \/ Shutdown
    \/ CallAgain

TwiceSpec == TwiceInit /\ [][TwiceNext]_vars

\* ------------------------------------------- the executor on its own
\* one worker thread is running one task; the external process may end in
\* any way and with any captured text
ExecInit ==
    /\ mode \in Modes
    /\ pc = "collect"
    /\ argv = NoArg
    /\ max_workers_var = <<"5">>
    /\ max_workers = 1
    /\ \E c \in Cmds :
         /\ commands = <<c>>
         /\ futures = <<[cmd |-> c, state |-> "RUNNING", runs |-> 1,
                         proc |-> NoProc, outcome |-> NoOutcome]>>
    /\ work_queue = <<>>
    /\ num_threads = 1
    /\ snapshot = {}
    /\ waiter = <<>>
    /\ results = <<>>
    /\ ret = <<>>
    /\ exc = "none"
    /\ exit_status = -1
    /\ printed = <<>>
    /\ run_button \in {"normal", "disabled"}
    /\ after_queue = <<>>
    /\ results_text = <<>>
    /\ dialog = "none"
    /\ command_entries = InitialEntries(mode)
    /\ clicked = 0
    /\ first_call = NoCall

ExecNext == \E proc \in ProcResults : WorkerFinish(1, proc)

ExecSpec == ExecInit /\ [][ExecNext]_vars

\* ================================================================ claims
Range(s) == {s[i] : i \in 1..Len(s)}

\* the worker-count texts that denote an integer >= 1
ValidBoundTexts == {<<"5">>, <<"+", "1">>, <<" ", "2", " ">>}

UsageLines == <<ErrorLine("Invalid argument"), ErrorLine("Usage")>>

\* sub occurs in s as a contiguous part
Contains(s, sub) ==
    \E k \in 0..(Len(s) - Len(sub)) : SubSeq(s, k + 1, k + Len(sub)) = sub

\* C1: a dispatch call with a worker bound >= 1 returns, and returns exactly
\* one Outcome per submitted task: as many Outcomes as tasks, each task
\* identifier exactly once.
C1_OneOutcomePerTask ==
    (pc \in {"returned", "raised"} /\ max_workers >= 1) =>
        /\ pc = "returned"
        /\ Len(ret) = Len(commands)
        /\ \A c \in Range(commands) :
             Cardinality({i \in 1..Len(ret) : ret[i][1] = c}) = 1

\* C2: the list a dispatch call returns is in ascending order of task
\* identifier, whatever the order in which the tasks completed.
C2_ReturnedSortedByIdentifier ==
    pc = "returned" =>
        \A i, j \in 1..Len(ret) : i < j => ret[i][1] <= ret[j][1]

\* C3: run_docker_container never raises: whatever the external process
\* did, the future of a finished task holds an Outcome, not an exception.
C3_ExecutorNeverRaises ==
    \A i \in FinishedSet : ~futures[i].outcome.raised

\* C4: with a worker bound >= 1 no exception leaves the dispatcher: the
\* collection loop never re-raises a task's fault and the call never ends
\* raised.
C4_NoAbortOnTaskFailure ==
    max_workers >= 1 => (exc = "none" /\ pc /= "raised")

\* C5: every Outcome has exactly one of output and error present and
\* non-empty.
C5_ExactlyOneNonEmpty ==
    \A i \in FinishedSet :
        ~futures[i].outcome.raised =>
            (Truthy(futures[i].outcome.value[2]) /= Truthy(futures[i].outcome.value[3]))

\* C5 as amended: every Outcome has exactly one of output and error present
\* (not None); an error that is present is never empty, an output that is
\* present is the trimmed stdout and is empty when the process printed
\* nothing but whitespace.
C5_ExactlyOnePresent ==
    \A i \in FinishedSet :
        ~futures[i].outcome.raised =>
            LET o == futures[i].outcome.value IN
            /\ o[2].some /= o[3].some
            /\ o[3].some => o[3].val /= <<>>
            /\ o[2].some <=> futures[i].proc.kind = "exit0"

\* a task whose process exited 0 with whitespace-only output: the output is
\* present and empty
C5_Witness ==
    \E i \in FinishedSet :
        /\ ~futures[i].outcome.raised
        /\ futures[i].proc.kind = "exit0"
        /\ futures[i].proc.stdout = <<" ", "\n">>
        /\ futures[i].outcome.value[2] = Some(<<>>)
        /\ futures[i].outcome.value[3] = None

\* C6: exit status 0 gives (identifier, trimmed stdout, none); a non-zero
\* exit status gives (identifier, none, error text that embeds the trimmed
\* stderr); the identifier is the executed task's.
C6_ResultMapping ==
    \A i \in FinishedSet :
        LET f == futures[i] IN
        /\ f.proc.kind = "exit0" =>
             /\ ~f.outcome.raised
             /\ f.outcome.value = <<f.cmd, Some(Strip(f.proc.stdout)), None>>
        /\ f.proc.kind = "nonzero" =>
             /\ ~f.outcome.raised
             /\ f.outcome.value[1] = f.cmd
             /\ f.outcome.value[2] = None
             /\ f.outcome.value[3].some
             /\ Contains(f.outcome.value[3].val, Strip(f.proc.stderr))

\* C7: at every moment the number of tasks that have started and not
\* finished is at most max_workers.
C7_ConcurrencyBound ==
    IF max_workers >= 1 THEN Cardinality(RunningSet) <= max_workers
    ELSE RunningSet = {}

\* more tasks than workers, every worker busy, a task still queued
C7_Witness ==
    /\ max_workers >= 2
    /\ Len(commands) > max_workers
    /\ Cardinality(RunningSet) = max_workers
    /\ work_queue /= <<>>

\* C8: when the call has left the dispatcher, by return or by exception,
\* every submitted task has finished: none is running, none is queued.
C8_NoEarlyReturn ==
    pc \in {"returned", "raised"} =>
        /\ work_queue = <<>>
        /\ \A i \in 1..Len(futures) : futures[i].state = "FINISHED"

\* the call left by an exception after all of several tasks finished
C8_Witness ==
    /\ pc = "raised"
    /\ exc /= "ValueError"
    /\ Len(futures) > max_workers
    /\ \A i \in 1..Len(futures) : futures[i].state = "FINISHED"

\* C9: an invalid worker bound is rejected before any task is submitted:
\* main prints the usage and exits with status 1, the GUI shows the Invalid
\* Input box and starts nothing, a direct call raises ValueError.
C9_InvalidBoundRejected ==
    /\ (mode = "cli_main" /\ argv.present /\ argv.text \notin ValidBoundTexts) =>
          /\ futures = <<>>
          /\ pc = "exited"
          /\ exit_status = 1
          /\ printed = UsageLines
    /\ (mode = "gui_app" /\ max_workers_var \notin ValidBoundTexts) =>
          /\ futures = <<>>
          /\ pc = "start"
          /\ dialog = "Invalid Input"
          /\ run_button = "normal"
    /\ (mode \in {"cli_direct", "gui_direct"} /\ pc /= "start" /\ max_workers < 1) =>
          /\ futures = <<>>
          /\ pc \in {"dispatch", "raised"}
          /\ pc = "raised" => exc = "ValueError"

\* main was given 0 and ended without submitting a task
C9_Witness ==
    /\ mode = "cli_main"
    /\ argv = [present |-> TRUE, text |-> <<"0">>]
    /\ pc = "exited"
    /\ exit_status = 1
    /\ futures = <<>>

\* C10: main ends with a non-zero status and the usage message, without
\* dispatching, when the argument is invalid; otherwise it ends with status
\* 0 after printing the report.
C10_ExitStatus ==
    (mode = "cli_main" /\ pc = "exited") =>
        IF argv.present /\ argv.text \notin ValidBoundTexts
        THEN exit_status /= 0 /\ printed = UsageLines /\ futures = <<>>
        ELSE exit_status = 0 /\ printed[Len(printed)].kind = "report"

\* the Outcome a BatchResult holds for task c
OutcomeOf(rs, c) == CHOOSE o \in Range(rs) : o[1] = c

\* both calls gave every task of the batch the same Outcome: the Executor
\* behaved as a function of the task
SameOutcomePerTask(rs1, rs2) ==
    /\ {o[1] : o \in Range(rs1)} = {o[1] : o \in Range(rs2)}
    /\ \A o \in Range(rs1) : OutcomeOf(rs2, o[1]) = o

\* C11: two calls on the same batch whose Executor gives each task the same
\* Outcome both times return the same list, Outcome for Outcome and in the
\* same order.
C11_SameBatchSameResult ==
    (first_call.done /\ first_call.returned /\ pc = "returned"
        /\ SameOutcomePerTask(first_call.ret, ret)) =>
        ret = first_call.ret

\* C12: within a call every task is submitted once, in batch order, and its
\* Executor is started once: a task waiting in the queue has not run, a
\* task running or finished has run exactly once and is not queued again,
\* and when the call is left every task of the batch has run exactly once.
C12_EachTaskOnce ==
    /\ Len(futures) <= Len(commands)
    /\ \A i \in 1..Len(futures) :
         /\ futures[i].cmd = commands[i]
         /\ futures[i].runs = (IF futures[i].state = "PENDING" THEN 0 ELSE 1)
         /\ Cardinality({k \in 1..Len(work_queue) : work_queue[k] = i})
              = (IF futures[i].state = "PENDING" THEN 1 ELSE 0)
    /\ (pc \in {"returned", "raised"} /\ max_workers >= 1) =>
          /\ Len(futures) = Len(commands)
          /\ \A i \in 1..Len(futures) : futures[i].runs = 1

\* a call of two tasks returned, one of its tasks failed, both ran once
C12_Witness ==
    /\ pc = "returned"
    /\ Len(futures) = 2
    /\ \E i \in 1..2 : futures[i].outcome.value[3].some
    /\ \A i \in 1..2 : futures[i].runs = 1

\* the step is a turn of the caller's collection loop that appends the
\* Outcome of one finished future and touches no future
AppendsInLoop ==
    /\ pc = "collect"
    /\ futures' = futures
    /\ \E f \in FinishedSet :
         /\ ~futures[f].outcome.raised
         /\ results' = Append(results, futures[f].outcome.value)

\* the step starts or leaves a call and empties the list
ResetsOutsideLoop ==
    /\ results' = <<>>
    /\ pc \in {"dispatch", "returned", "raised"}

\* results holds the Outcome of every future exactly once
HoldsEveryOutcome(rs, fs) ==
    /\ Len(rs) = Len(fs)
    /\ \A f \in 1..Len(fs) :
         Cardinality({k \in 1..Len(rs) : rs[k] = fs[f].outcome.value}) = 1

\* C13: the results list changes only in a turn of the caller's collection
\* loop, by one append of the Outcome of a finished future, or when a call
\* starts or is left; a step in which a worker finishes a task never changes
\* it; and when the loop ends normally the list holds the Outcome of every
\* future exactly once, whatever the order of completions.
C13_SingleMutator ==
    [][/\ results' /= results => (AppendsInLoop \/ ResetsOutsideLoop)
       /\ futures' /= futures /\ Len(futures') = Len(futures) /\ pc = "collect"
             => results' = results
       /\ (pc = "collect" /\ pc' = "shutdown" /\ exc' = "none")
             => HoldsEveryOutcome(results', futures')]_vars

\* the loop has appended the Outcome of the task submitted second while the
\* task submitted first is still running in a worker
C13_Witness ==
    /\ pc = "collect"
    /\ Len(futures) = 2
    /\ futures[1].state = "RUNNING"
    /\ results = <<futures[2].outcome.value>>

\* C14: under fair scheduling and terminating processes every submitted task
\* eventually starts, and a call that has begun to submit its batch
\* eventually returns.
C14_DispatchReturns ==
    /\ \A i \in 1..MaxBatch :
         (Len(futures) >= i /\ futures[i].state = "PENDING")
            ~> (Len(futures) >= i /\ futures[i].state /= "PENDING")
    /\ (pc = "submit") ~> (pc = "returned")

\* the summary of report rep agrees with the Outcomes rs it was rendered from
SummaryAgrees(rep, rs) ==
    /\ rep.kind = "report"
    /\ rep.successful_runs = Cardinality({k \in 1..Len(rs) : ~rs[k][3].some})
    /\ rep.failed_runs = Cardinality({k \in 1..Len(rs) : rs[k][3].some})
    /\ rep.successful_runs + rep.failed_runs = Len(rs)

\* C15: whenever a report is rendered (display_results run by the Tk main
\* loop, aggregate_and_display_results run by main), its success count is the
\* number of Outcomes without an error, its failure count the number of
\* Outcomes with an error, and the two add up to the number of Outcomes.
C15_SummaryAgrees ==
    [][/\ (after_queue /= <<>> /\ after_queue' = Tail(after_queue)
              /\ Head(after_queue).fn = "display_results")
          => SummaryAgrees(results_text'[Len(results_text')],
                           Head(after_queue).results)
       /\ (mode = "cli_main" /\ pc = "returned" /\ pc' = "exited")
          => SummaryAgrees(printed'[Len(printed')], ret)]_vars

\* text t holds nothing but whitespace
IsBlankText(t) == \A i \in 1..Len(t) : IsSpace(t[i])

\* cmds names exactly the texts that are not blank, in the order of texts:
\* the j-th command is the j-th text that is not blank, without its
\* whitespace
NamesNonBlankInOrder(texts, cmds) ==
    LET blank == [k \in 1..Len(texts) |-> IsBlankText(texts[k])]
        \* the number of texts up to the k-th that are not blank
        rank == [k \in 1..Len(texts) |->
                    Cardinality({m \in 1..k : ~blank[m]})]
    IN
    /\ Len(cmds) = Cardinality({k \in 1..Len(texts) : ~blank[k]})
    /\ \A k \in 1..Len(texts) :
         ~blank[k] =>
            cmds[rank[k]]
               = Cardinality({i \in 1..Len(texts[k]) : ~IsSpace(texts[k][i])})

\* C16: a click on the run button that passes the validation of the worker
\* count starts a dispatch only when some entry is not blank after trimming;
\* the batch then holds exactly the non-blank commands in entry order and is
\* not empty; when every entry is blank the click only shows the warning:
\* the button stays enabled, no thread is started and no future is created.
\* A GUI dispatch in progress has the batch its click built, never an empty
\* one.
C16_NoEmptyDispatch ==
    [][/\ (mode = "gui_app" /\ pc = "start" /\ after_queue' = after_queue
              /\ dialog' /= "Invalid Input")
          => LET texts == EntryTexts(command_entries') IN
             IF \A k \in 1..Len(texts) : IsBlankText(texts[k])
             THEN /\ dialog' = "No Commands"
                  /\ pc' = "start"
                  /\ run_button' = "normal"
                  /\ futures' = <<>>
                  /\ num_threads' = 0
                  /\ commands' = <<>>
             ELSE /\ pc' = "dispatch"
                  /\ commands' /= <<>>
                  /\ NamesNonBlankInOrder(texts, commands')
       /\ (mode' = "gui_app" /\ (pc' /= "start" \/ futures' /= <<>>))
          => /\ commands' /= <<>>
             /\ (commands' = commands \/ pc = "start")]_vars

\* a dispatch was started from a form with a blank entry before a command
C16_Witness ==
    /\ mode = "gui_app"
    /\ pc = "dispatch"
    /\ Len(command_entries) = 2
    /\ IsBlankText(command_entries[1].text)
    /\ command_entries[1].text /= <<>>
    /\ Len(commands) = 1

\* the callbacks a finished dispatch has scheduled and the main loop has not
\* run yet: one display callback followed by the re-enabling, or the
\* re-enabling alone
PendingCallbacks(q) ==
    \/ q = <<>>
    \/ /\ Len(q) = 2
       /\ q[1].fn \in {"display_results", "display_error"}
       /\ q[2].fn = "enable_button"
    \/ /\ Len(q) = 1
       /\ q[1].fn = "enable_button"

\* C17: in the GUI the run button is disabled while a dispatch is in
\* progress and until the callbacks of the finished dispatch have run, so no
\* click starts a second dispatch; the thread of a dispatch that returned
\* schedules display_results with its result, the thread of a dispatch that
\* raised schedules display_error, and both schedule the re-enabling of the
\* button after it; a disabled button is eventually enabled again.
C17_ButtonLifecycle ==
    /\ [](mode = "gui_app" =>
            /\ pc /= "start" => (run_button = "disabled" /\ after_queue = <<>>)
            /\ after_queue /= <<>> => run_button = "disabled"
            /\ PendingCallbacks(after_queue))
    /\ [][/\ (mode = "gui_app" /\ pc \in {"returned", "raised"} /\ pc' = "start")
             => after_queue' =
                  <<IF pc = "returned" THEN Callback("display_results", ret, "none")
                    ELSE Callback("display_error", <<>>, exc),
                    Callback("enable_button", <<>>, "none")>>
          /\ (mode = "gui_app" /\ pc' = "dispatch")
             => (pc = "start" /\ run_button = "normal" /\ run_button' = "disabled")
         ]_vars
    /\ (run_button = "disabled") ~> (run_button = "normal")

\* a dispatch has ended, its report is shown and the button is enabled again
C17_Witness ==
    /\ mode = "gui_app"
    /\ run_button = "normal"
    /\ pc = "start"
    /\ Len(results_text) = 2
    /\ results_text[2].kind = "report"

\* entries is before without its k-th element
WithoutKth(before, k, entries) ==
    /\ Len(entries) = Len(before) - 1
    /\ \A j \in 1..(k - 1) : entries[j] = before[j]
    /\ \A j \in k..Len(entries) : entries[j] = before[j + 1]

\* C18: from construction on command_entries is never empty.  A
\* delete_command on the only entry leaves the list as it is and shows the
\* warning; a delete_command with two or more entries removes the entry of
\* the clicked widget and keeps the others in their order; add_command
\* appends one entry and keeps the others.
C18_AtLeastOneEntry ==
    /\ [](mode = "gui_app" =>
            /\ Len(command_entries) >= 1
            /\ \A i, j \in 1..Len(command_entries) :
                 command_entries[i].id = command_entries[j].id => i = j)
    /\ [][mode = "gui_app" =>
            /\ (clicked' /= 0 /\ Len(command_entries) = 1)
               => (command_entries' = command_entries /\ dialog' = "Warning")
            /\ (clicked' /= 0 /\ Len(command_entries) >= 2)
               => \E k \in 1..Len(command_entries) :
                     /\ command_entries[k].id = clicked'
                     /\ WithoutKth(command_entries, k, command_entries')
            /\ (clicked' = 0 /\ Len(command_entries') /= Len(command_entries))
               => /\ Len(command_entries') = Len(command_entries) + 1
                  /\ SubSeq(command_entries', 1, Len(command_entries))
                        = command_entries
         ]_vars

\* the first of three entries was deleted, the other two are left in order
C18_Witness ==
    /\ mode = "gui_app"
    /\ clicked = 1
    /\ Len(command_entries) = 2
    /\ command_entries[1].id = 2
    /\ command_entries[2].id = 3

====
